---- MODULE Spec2Model ----
(***************************************************************************)
(* kubesecret_rota: a polling loop that lists Secrets, evaluates their     *)
(* "secret-expiry" annotation, finds the Deployments whose pods mount an   *)
(* expired Secret and rollout-restarts them under RetryOnConflict.         *)
(* Model of src/main.go.                                                   *)
(***************************************************************************)
EXTENDS Integers, Naturals, Sequences, FiniteSets, TLC

\* ------------------------------------------------------------------ bounds
\* ticks of the ticker (so: scan cycles at most) in Spec
MaxTicks == 1
\* ticks of the ticker in SpecLoop
MaxLoopTicks == 3
\* injected control-plane failures (list / get / update errors) per behaviour
MaxFaults == 1
\* writes of another client to a Deployment per behaviour
MaxOtherWrites == 1
\* readings of the clock that see time having advanced by ElapseNs
MaxElapse == 1
\* slots for invocations of checkSecrets that could be live at once
MaxRuns == 2
\* writes of another client while one Deployment is restarted, in SpecConflict
MaxConflictWrites == 6

\* ------------------------------------------------------- strings as data
\* A Go string is a sequence of one-character strings, so that Split, Join
\* and the parsers work on its characters.
Digits == {"0", "1", "2", "3", "4", "5", "6", "7", "8", "9"}

DigitVal(c) ==
    CASE c = "0" -> 0 [] c = "1" -> 1 [] c = "2" -> 2 [] c = "3" -> 3
      [] c = "4" -> 4 [] c = "5" -> 5 [] c = "6" -> 6 [] c = "7" -> 7
      [] c = "8" -> 8 [] c = "9" -> 9

IsDigitAt(s, i) == i >= 1 /\ i <= Len(s) /\ s[i] \in Digits

\* s[i..j], empty when j < i (Go s[i-1:j])
Slice(s, i, j) == IF j < i THEN <<>> ELSE SubSeq(s, i, j)

RECURSIVE SplitAcc(_, _, _, _)
SplitAcc(s, i, cur, acc) ==
    IF i > Len(s) THEN Append(acc, cur)
    ELSE IF s[i] = "-" THEN SplitAcc(s, i + 1, <<>>, Append(acc, cur))
    ELSE SplitAcc(s, i + 1, Append(cur, s[i]), acc)

\* strings.Split(s, "-"): always at least one part
SplitHyphen(s) == SplitAcc(s, 1, <<>>, <<>>)

RECURSIVE JoinHyphen(_)
\* strings.Join(parts, "-")
JoinHyphen(parts) ==
    IF Len(parts) = 0 THEN <<>>
    ELSE IF Len(parts) = 1 THEN parts[1]
    ELSE parts[1] \o <<"-">> \o JoinHyphen(Tail(parts))

\* the mutant: drops no segment
extractDeploymentName_keepsAll(rsName) == rsName

\* func extractDeploymentName(rsName string) string
extractDeploymentName(rsName) ==
    LET parts == SplitHyphen(rsName)
    IN  IF Len(parts) < 2 THEN <<>>
        ELSE JoinHyphen(SubSeq(parts, 1, Len(parts) - 1))

\* ------------------------------------------------------------------- time
\* A time.Time is [d, s, ns]: days since 1970-01-01 (UTC), second of the day,
\* nanosecond of the second.  A time.Duration is [neg, s, ns].
NsPerSec == 1000 * 1000 * 1000
SecPerDay == 24 * 3600

MkTime(d, s, ns) == [d |-> d, s |-> s, ns |-> ns]
MkDuration(neg, s, ns) == [neg |-> neg, s |-> s, ns |-> ns]

\* func (t Time) After(u Time) bool
After(t, u) ==
    \/ t.d > u.d
    \/ t.d = u.d /\ t.s > u.s
    \/ t.d = u.d /\ t.s = u.s /\ t.ns > u.ns

\* func (t Time) Add(d Duration) Time
TimeAdd(t, dur) ==
    LET sgn == IF dur.neg THEN -1 ELSE 1
        ns2 == t.ns + sgn * dur.ns
        s2  == t.s + sgn * dur.s + (ns2 \div NsPerSec)
    IN  MkTime(t.d + (s2 \div SecPerDay), s2 % SecPerDay, ns2 % NsPerSec)

\* t.Format(time.RFC3339): the layout has no fractional seconds, so the
\* nanoseconds are dropped; the text is determined by the day and the second.
FormatRFC3339(t) == <<t.d, t.s>>

IsLeap(y) == y % 4 = 0 /\ (y % 100 # 0 \/ y % 400 = 0)

\* time.daysIn
DaysIn(m, y) ==
    IF m = 2 THEN (IF IsLeap(y) THEN 29 ELSE 28)
    ELSE IF m \in {4, 6, 9, 11} THEN 30 ELSE 31

\* days since 1970-01-01 of a civil date (time.Date for a UTC date)
DaysFromCivil(y, m, d) ==
    LET yy  == IF m <= 2 THEN y - 1 ELSE y
        era == yy \div 400
        yoe == yy - era * 400
        mp  == IF m > 2 THEN m - 3 ELSE m + 9
        doy == ((153 * mp + 2) \div 5) + d - 1
        doe == yoe * 365 + (yoe \div 4) - (yoe \div 100) + doy
    IN  era * 146097 + doe - 719468

\* --------------------------------------------------------------- time.Parse
NoTime == [ok |-> FALSE, t |-> MkTime(0, 0, 0)]

\* time.getnum: one or two digits at s[i]; fixed demands two
GetNum(s, i, fixed) ==
    IF ~IsDigitAt(s, i) THEN [ok |-> FALSE, val |-> 0, next |-> i]
    ELSE IF ~IsDigitAt(s, i + 1)
         THEN IF fixed THEN [ok |-> FALSE, val |-> 0, next |-> i]
              ELSE [ok |-> TRUE, val |-> DigitVal(s[i]), next |-> i + 1]
    ELSE [ok |-> TRUE, val |-> DigitVal(s[i]) * 10 + DigitVal(s[i + 1]),
          next |-> i + 2]

RECURSIVE DigitRunEnd(_, _)
\* the index after the run of digits that starts at s[i]
DigitRunEnd(s, i) == IF IsDigitAt(s, i) THEN DigitRunEnd(s, i + 1) ELSE i

RECURSIVE Atoi(_)
\* value of a sequence of digits
Atoi(ds) == IF Len(ds) = 0 THEN 0
            ELSE Atoi(SubSeq(ds, 1, Len(ds) - 1)) * 10 + DigitVal(ds[Len(ds)])

RECURSIVE Pow10(_)
Pow10(k) == IF k <= 0 THEN 1 ELSE 10 * Pow10(k - 1)

\* s has the character c at position i
HasAt(s, i, c) == i >= 1 /\ i <= Len(s) /\ s[i] = c

\* time.parseNanoseconds on the digits after the period: nine digits are
\* read, further digits are dropped
ParseNanoseconds(ds) ==
    IF Len(ds) > 9 THEN Atoi(SubSeq(ds, 1, 9))
    ELSE Atoi(ds) * Pow10(9 - Len(ds))

\* The date at the head of the three layouts, "2006-01-02": four digits of
\* year, a two-digit month in 1..12, a two-digit day.  [ok, y, m, d, next]
BadDate == [ok |-> FALSE, y |-> 0, m |-> 0, d |-> 0, next |-> 1]

\* ... the day, after the month mo
DateDay(s, mo, dy) ==
    IF ~dy.ok THEN BadDate
    ELSE [ok |-> TRUE, y |-> Atoi(SubSeq(s, 1, 4)), m |-> mo.val, d |-> dy.val,
          next |-> dy.next]

\* ... the month, after the year
DateMonth(s, mo) ==
    IF ~mo.ok \/ mo.val <= 0 \/ mo.val > 12 THEN BadDate
    ELSE IF ~HasAt(s, mo.next, "-") THEN BadDate
    ELSE DateDay(s, mo, GetNum(s, mo.next + 1, TRUE))

ParseDatePart(s) ==
    IF ~(Len(s) >= 4 /\ \A i \in 1..4 : IsDigitAt(s, i)) THEN BadDate
    ELSE IF ~HasAt(s, 5, "-") THEN BadDate
    ELSE DateMonth(s, GetNum(s, 6, TRUE))

\* "T15:04:05" at s[i], with the fractional second time.Parse accepts after
\* the seconds although the layout has none.  [ok, sec, ns, next]
BadClock == [ok |-> FALSE, sec |-> 0, ns |-> 0, next |-> 1]

\* ... the fraction, if there is one at s[p]; it ends before fracEnd
ClockFraction(sec, s, p, fracEnd) ==
    IF HasAt(s, p, ".") \/ HasAt(s, p, ",")
    THEN IF IsDigitAt(s, p + 1)
         THEN [ok |-> TRUE, sec |-> sec,
               ns |-> ParseNanoseconds(Slice(s, p + 1, fracEnd - 1)),
               next |-> fracEnd]
         ELSE [ok |-> TRUE, sec |-> sec, ns |-> 0, next |-> p]
    ELSE [ok |-> TRUE, sec |-> sec, ns |-> 0, next |-> p]

\* ... the seconds, a two-digit number below 60
ClockSecond(s, hr, mi, se) ==
    IF ~se.ok \/ se.val >= 60 THEN BadClock
    ELSE ClockFraction(hr.val * 3600 + mi.val * 60 + se.val, s, se.next,
                       DigitRunEnd(s, se.next + 1))

\* ... the minutes, a two-digit number below 60
ClockMinute(s, hr, mi) ==
    IF ~mi.ok \/ mi.val >= 60 THEN BadClock
    ELSE IF ~HasAt(s, mi.next, ":") THEN BadClock
    ELSE ClockSecond(s, hr, mi, GetNum(s, mi.next + 1, TRUE))

\* ... the hour, one or two digits, below 24
ClockHour(s, hr) ==
    IF ~hr.ok \/ hr.val >= 24 THEN BadClock
    ELSE IF ~HasAt(s, hr.next, ":") THEN BadClock
    ELSE ClockMinute(s, hr, GetNum(s, hr.next + 1, TRUE))

ParseClockPart(s, i) ==
    IF ~HasAt(s, i, "T") THEN BadClock
    ELSE ClockHour(s, GetNum(s, i + 1, FALSE))

\* "Z07:00" at s[i]: "Z", or a sign, two digits, a colon and two digits.
\* [ok, off (seconds east of UTC), next]
BadZone == [ok |-> FALSE, off |-> 0, next |-> 1]

\* ... the offset from its hours and minutes
ZoneOffset(s, i, hr, mm) ==
    IF ~hr.ok \/ ~mm.ok THEN BadZone
    ELSE IF hr.val > 24 \/ mm.val > 60 THEN BadZone
    ELSE IF s[i] = "+"
         THEN [ok |-> TRUE, off |-> (hr.val * 60 + mm.val) * 60, next |-> i + 6]
    ELSE IF s[i] = "-"
         THEN [ok |-> TRUE, off |-> 0 - (hr.val * 60 + mm.val) * 60, next |-> i + 6]
    ELSE BadZone

ParseZonePart(s, i) ==
    IF HasAt(s, i, "Z") THEN [ok |-> TRUE, off |-> 0, next |-> i + 1]
    ELSE IF Len(s) < i + 5 THEN BadZone
    ELSE IF s[i + 3] # ":" THEN BadZone
    ELSE ZoneOffset(s, i, GetNum(Slice(s, i + 1, i + 2), 1, TRUE),
                    GetNum(Slice(s, i + 4, i + 5), 1, TRUE))

\* the instant of a civil date and time read with a zone offset
InstantOf(dt, ck, off) ==
    TimeAdd(MkTime(DaysFromCivil(dt.y, dt.m, dt.d), ck.sec, ck.ns),
            MkDuration(off > 0, IF off > 0 THEN off ELSE 0 - off, 0))

\* ... the end of the value: extra text is an error, and the day is
\* validated against the month last
TimeParseEnd(value, dt, ck, zn) ==
    IF ~zn.ok THEN NoTime
    ELSE IF zn.next # Len(value) + 1 THEN NoTime
    ELSE IF dt.d < 1 \/ dt.d > DaysIn(dt.m, dt.y) THEN NoTime
    ELSE [ok |-> TRUE, t |-> InstantOf(dt, ck, zn.off)]

\* ... the zone, for the layout that has one
TimeParseZone(layout, value, dt, ck) ==
    IF ~ck.ok THEN NoTime
    ELSE TimeParseEnd(value, dt, ck,
                      IF layout = "rfc3339" THEN ParseZonePart(value, ck.next)
                      ELSE [ok |-> TRUE, off |-> 0, next |-> ck.next])

\* ... the time of day, for the layouts that have one
TimeParseClock(layout, value, dt) ==
    IF ~dt.ok THEN NoTime
    ELSE TimeParseZone(layout, value, dt,
                       IF layout = "date"
                       THEN [ok |-> TRUE, sec |-> 0, ns |-> 0, next |-> dt.next]
                       ELSE ParseClockPart(value, dt.next))

\* time.Parse(layout, value) for the three layouts of isSecretExpired:
\*   "rfc3339" = time.RFC3339, "notz" = "2006-01-02T15:04:05",
\*   "date" = "2006-01-02".  A layout without zone is read as UTC.
TimeParse(layout, value) == TimeParseClock(layout, value, ParseDatePart(value))

\* ------------------------------------------------------- time.ParseDuration
\* time.unitMap: the unit's size as [sec, nsec]; exactly one of them is not 0
UnitOf(u) ==
    CASE u = <<"n", "s">> -> [ok |-> TRUE, sec |-> 0, nsec |-> 1]
      [] u = <<"u", "s">> -> [ok |-> TRUE, sec |-> 0, nsec |-> 1000]
      [] u = <<"µ", "s">> -> [ok |-> TRUE, sec |-> 0, nsec |-> 1000]
      [] u = <<"m", "s">> -> [ok |-> TRUE, sec |-> 0, nsec |-> 1000 * 1000]
      [] u = <<"s">>      -> [ok |-> TRUE, sec |-> 1, nsec |-> 0]
      [] u = <<"m">>      -> [ok |-> TRUE, sec |-> 60, nsec |-> 0]
      [] u = <<"h">>      -> [ok |-> TRUE, sec |-> 3600, nsec |-> 0]
      [] OTHER            -> [ok |-> FALSE, sec |-> 0, nsec |-> 0]

RECURSIVE UnitEnd(_, _)
\* the index after the unit that starts at s[i]: it runs up to the next
\* digit or period
UnitEnd(s, i) ==
    IF i > Len(s) \/ s[i] = "." \/ s[i] \in Digits THEN i ELSE UnitEnd(s, i + 1)

\* One term v.f<unit> of a duration as [s, ns]: v whole units plus f / 10^dg
\* of a unit (the fraction is truncated to whole nanoseconds).
TermValue(v, f, dg, unit) ==
    IF unit.sec > 0
    THEN [s  |-> v * unit.sec + ((f * unit.sec) \div Pow10(dg)),
          ns |-> ((f * unit.sec) % Pow10(dg)) * Pow10(9 - dg)]
    ELSE [s  |-> v \div (NsPerSec \div unit.nsec),
          ns |-> (v % (NsPerSec \div unit.nsec)) * unit.nsec
                 + ((f * unit.nsec) \div Pow10(dg))]

RECURSIVE StripZeros(_)
\* a sequence of digits without its leading zeros
StripZeros(ds) ==
    IF Len(ds) > 0 /\ Head(ds) = "0" THEN StripZeros(Tail(ds)) ELSE ds

RECURSIVE DigitsAbove(_, _)
\* of two sequences of digits of one length, the first is the larger number
DigitsAbove(a, b) ==
    IF Len(a) = 0 THEN FALSE
    ELSE IF Head(a) # Head(b) THEN DigitVal(Head(a)) > DigitVal(Head(b))
    ELSE DigitsAbove(Tail(a), Tail(b))

\* the number written by the digits ds is greater than the one written by
\* the digits limit (which has no leading zero)
ExceedsDigits(ds, limit) ==
    \/ Len(StripZeros(ds)) > Len(limit)
    \/ Len(StripZeros(ds)) = Len(limit) /\ DigitsAbove(StripZeros(ds), limit)

\* 1<<63 / unit, in digits: the most units of a kind that an int64 of
\* nanoseconds holds
MaxUnits(unit) ==
    CASE unit.sec = 3600 -> <<"2", "5", "6", "2", "0", "4", "7">>
      [] unit.sec = 60 -> <<"1", "5", "3", "7", "2", "2", "8", "6", "7">>
      [] unit.sec = 1 -> <<"9", "2", "2", "3", "3", "7", "2", "0", "3", "6">>
      [] unit.nsec = 1000 * 1000 ->
           <<"9", "2", "2", "3", "3", "7", "2", "0", "3", "6", "8", "5", "4">>
      [] unit.nsec = 1000 ->
           <<"9", "2", "2", "3", "3", "7", "2", "0", "3", "6", "8", "5", "4",
             "7", "7", "5">>
      [] OTHER ->
           <<"9", "2", "2", "3", "3", "7", "2", "0", "3", "6", "8", "5", "4",
             "7", "7", "5", "8", "0", "7">>

\* leadingInt fails above 1<<63, and v > 1<<63 / unit is an overflow: the
\* whole part, given by its digits, does not fit an int64 of nanoseconds.
\* (A sum of terms that overflows, and a whole part that fits but exceeds
\* the 32 bits of the model's integers, are not in the values drawn.)
TermOverflows(vds, unit) == ExceedsDigits(vds, MaxUnits(unit))

BadTerms == [ok |-> FALSE, s |-> 0, ns |-> 0]

RECURSIVE ParseTerms(_, _, _)

\* ... the sum goes on with the term added
TermAdd(s, acc, uEnd, term) ==
    ParseTerms(s, uEnd,
               [s  |-> acc.s + term.s + ((acc.ns + term.ns) \div NsPerSec),
                ns |-> (acc.ns + term.ns) % NsPerSec])

\* ... the unit must be known and the whole part must not overflow
TermSum(s, acc, uEnd, vds, fds, unit) ==
    IF ~unit.ok THEN BadTerms
    ELSE IF TermOverflows(vds, unit) THEN BadTerms
    ELSE TermAdd(s, acc, uEnd, TermValue(Atoi(vds), Atoi(fds), Len(fds), unit))

\* ... a term s[i..uEnd-1]: digits up to vEnd, a fraction up to fEnd, a unit
TermCheck(s, i, acc, vEnd, fEnd, uEnd) ==
    \* no digits at all (".s")
    IF ~(vEnd > i) /\ ~(HasAt(s, vEnd, ".") /\ fEnd > vEnd + 1) THEN BadTerms
    \* missing unit
    ELSE IF uEnd = fEnd THEN BadTerms
    ELSE TermSum(s, acc, uEnd, Slice(s, i, vEnd - 1),
                 IF HasAt(s, vEnd, ".") THEN Slice(s, vEnd + 1, fEnd - 1) ELSE <<>>,
                 UnitOf(Slice(s, fEnd, uEnd - 1)))

\* ... the fraction, if a period follows the digits
TermFraction(s, i, acc, vEnd, fEnd) ==
    TermCheck(s, i, acc, vEnd, fEnd, UnitEnd(s, fEnd))

\* ... the digits before the period
TermDigits(s, i, acc, vEnd) ==
    TermFraction(s, i, acc, vEnd,
                 IF HasAt(s, vEnd, ".") THEN DigitRunEnd(s, vEnd + 1) ELSE vEnd)

\* The loop of ParseDuration over the terms from s[i] on; acc is the sum so
\* far as [s, ns].  [ok, s, ns]
ParseTerms(s, i, acc) ==
    IF i > Len(s) THEN [ok |-> TRUE, s |-> acc.s, ns |-> acc.ns]
    ELSE IF ~(s[i] = "." \/ s[i] \in Digits) THEN BadTerms
    ELSE TermDigits(s, i, acc, DigitRunEnd(s, i))

BadDuration == [ok |-> FALSE, d |-> MkDuration(FALSE, 0, 0)]

\* ... the result from the sum of the terms
DurationResult(neg, terms) ==
    IF ~terms.ok THEN BadDuration
    ELSE [ok |-> TRUE, d |-> MkDuration(neg, terms.s, terms.ns)]

\* ... after the sign
SignedDuration(neg, rest) ==
    IF rest = <<"0">> THEN [ok |-> TRUE, d |-> MkDuration(FALSE, 0, 0)]
    ELSE IF rest = <<>> THEN BadDuration
    ELSE DurationResult(neg, ParseTerms(rest, 1, [s |-> 0, ns |-> 0]))

\* func ParseDuration(s string) (Duration, error): [ok, d]
ParseDuration(s) ==
    IF HasAt(s, 1, "-") THEN SignedDuration(TRUE, Tail(s))
    ELSE IF HasAt(s, 1, "+") THEN SignedDuration(FALSE, Tail(s))
    ELSE SignedDuration(FALSE, s)

\* ---------------------------------------------------------- isSecretExpired
\* layouts := []string{time.RFC3339, "2006-01-02T15:04:05", "2006-01-02"}
layouts == <<"rfc3339", "notz", "date">>

RECURSIVE FirstParsed(_, _)

\* ... the result under layout k if the value parses, else the next layout
ParsedOrNext(value, k, parsed) ==
    IF parsed.ok THEN parsed ELSE FirstParsed(value, k + 1)

\* for _, layout := range layouts: the result of time.Parse under the first
\* layout, from position k on, under which the value parses
FirstParsed(value, k) ==
    IF k > Len(layouts) THEN NoTime
    ELSE ParsedOrNext(value, k, TimeParse(layouts[k], value))

\* ... relative seconds since creation, or the error
RelativeResult(secret, now, secs) ==
    IF secs.ok
    THEN [err |-> FALSE,
          expired |-> After(now, TimeAdd(secret.creationTimestamp, secs.d))]
    ELSE [err |-> TRUE, expired |-> FALSE]

\* the mutant: expired from the instant of expiry on
AbsoluteResult_notStrict(secret, expiryRaw, now, abs) ==
    IF abs.ok THEN [err |-> FALSE, expired |-> ~After(abs.t, now)]
    ELSE RelativeResult(secret, now, ParseDuration(expiryRaw \o <<"s">>))

\* ... an absolute time if one of the layouts parses
AbsoluteResult(secret, expiryRaw, now, abs) ==
    IF abs.ok THEN [err |-> FALSE, expired |-> After(now, abs.t)]
    ELSE RelativeResult(secret, now, ParseDuration(expiryRaw \o <<"s">>))

\* func isSecretExpired(secret v1.Secret, expiryRaw string, now time.Time)
\* (bool, error): [err, expired]
isSecretExpired(secret, expiryRaw, now) ==
    AbsoluteResult(secret, expiryRaw, now, FirstParsed(expiryRaw, 1))

\* ------------------------------------------------------- program constants
\* const ExpiryAnnotationKey = "secret-expiry"
ExpiryAnnotationKey == "secret-expiry"
\* const PollInterval = 5 * time.Minute
PollInterval == MkDuration(FALSE, 5 * 60, 0)
\* the annotation key that rolloutRestartDeployment sets
RestartedAtKey == "kubectl.kubernetes.io/restartedAt"
\* retry.DefaultRetry: wait.Backoff{Steps: 5, ...}
RetrySteps == 5

\* ---------------------------------------------------------------- the world
\* The process starts (and its ticker is created) at 2025-01-01T00:00:00Z.
StartTime == MkTime(DaysFromCivil(2025, 1, 1), 0, 0)
\* time that a reading of the clock may find elapsed since the last reading
Elapse == MkDuration(FALSE, 1, 500 * 1000 * 1000)

\* names as Go strings
nX == <<"x">>
nY == <<"y">>
nZ == <<"z">>
nU == <<"u">>
nN == <<"n">>
nWeb == <<"w", "e", "b">>
nApi == <<"a", "p", "i">>
nCache == <<"c", "a", "c", "h", "e">>
nIdle == <<"i", "d", "l", "e">>
nDs == <<"d", "s">>
nJob == <<"j", "o", "b">>
nSolo == <<"s", "o", "l", "o">>
nMyApp == <<"m", "y", "-", "a", "p", "p">>
nOldApp == <<"o", "l", "d", "-", "a", "p", "p">>
\* a ReplicaSet name: the owner's name, a hyphen, the template hash
Rs(dep, hash) == dep \o <<"-">> \o hash

rawPast == <<"2", "0", "2", "4", "-", "1", "2", "-", "3", "1">>
rawFuture == <<"2", "0", "2", "5", "-", "0", "6", "-", "0", "1", "T", "0", "0", ":", "0", "0", ":", "0", "0", "Z">>
rawBad == <<"s", "o", "o", "n">>
rawRel == <<"3", "0", "0">>

NoAnnotations == [k \in {} |-> <<>>]
Expiry(raw) == [k \in {ExpiryAnnotationKey} |-> raw]

\* v1.Secret as the program reads it
Secret(ns, name, ann) ==
    [namespace |-> ns, name |-> name, annotations |-> ann,
     creationTimestamp |-> StartTime]

\* a volume of kind secret, and one of another kind (vol.Secret == nil)
SecretVol(name) == [secret |-> TRUE, secretName |-> name]
OtherVol == [secret |-> FALSE, secretName |-> <<>>]

\* metav1.OwnerReference; controller is the *bool: "nil", "true", "false"
Owner(kind, name, ctl) == [kind |-> kind, name |-> name, controller |-> ctl]

\* v1.Pod; env holds the Secrets its containers read through environment
\* variables
Pod(ns, vols, env, owners) ==
    [namespace |-> ns, volumes |-> vols, env |-> env, ownerReferences |-> owners]

\* appsv1.ReplicaSet: the Secrets its pod template mounts, and its replicas
ReplicaSet(ns, name, tmpl, replicas) ==
    [namespace |-> ns, name |-> name, template |-> tmpl, replicas |-> replicas]

\* appsv1.Deployment as stored: the pod template's annotations ("nil" for a
\* nil map) and the rest of the object, which other clients write
Deployment(ann) == [resourceVersion |-> 1, annotations |-> ann, replicas |-> 1]

\* a map[string]string: nil, or a map with its entries
NilMap == [nil |-> TRUE, m |-> NoAnnotations]
MapOf(f) == [nil |-> FALSE, m |-> f]
TeamAnnotation == [k \in {"team"} |-> "core"]

\* Three credentials, one malformed, one expired with two Deployments, one
\* not expired; and a Secret without annotations.
ScEndToEnd ==
    [secrets |-> << Secret("B", nY, Expiry(rawBad)),
                    Secret("B", nX, Expiry(rawPast)),
                    Secret("B", nZ, Expiry(rawFuture)),
                    Secret("B", nN, NoAnnotations) >>,
     pods |-> << Pod("B", <<SecretVol(nX)>>, {}, <<Owner("ReplicaSet", Rs(nWeb, <<"1">>), "true")>>),
                 Pod("B", <<OtherVol, SecretVol(nX)>>, {}, <<Owner("ReplicaSet", Rs(nApi, <<"1">>), "true")>>),
                 Pod("B", <<SecretVol(nY), SecretVol(nZ), SecretVol(nN)>>, {}, <<Owner("ReplicaSet", Rs(nCache, <<"1">>), "true")>>) >>,
     replicaSets |-> { ReplicaSet("B", Rs(nWeb, <<"1">>), {nX}, 1),
                       ReplicaSet("B", Rs(nApi, <<"1">>), {nX}, 1),
                       ReplicaSet("B", Rs(nCache, <<"1">>), {nY, nZ, nN}, 1) },
     deployments |-> [k \in {<<"B", nWeb>>, <<"B", nApi>>, <<"B", nCache>>} |->
                        Deployment(NilMap)]]

\* The same Secret name and the same workload names in two namespaces.
ScNamespaces ==
    [secrets |-> << Secret("A", nX, Expiry(rawFuture)),
                    Secret("B", nX, Expiry(rawPast)) >>,
     pods |-> << Pod("A", <<SecretVol(nX)>>, {}, <<Owner("ReplicaSet", Rs(nWeb, <<"1">>), "true")>>),
                 Pod("B", <<SecretVol(nX)>>, {}, <<Owner("ReplicaSet", Rs(nApi, <<"1">>), "true")>>) >>,
     replicaSets |-> { ReplicaSet("A", Rs(nWeb, <<"1">>), {nX}, 1),
                       ReplicaSet("B", Rs(nApi, <<"1">>), {nX}, 1) },
     deployments |-> [k \in {<<"A", nWeb>>, <<"B", nWeb>>, <<"B", nApi>>} |->
                        Deployment(MapOf(TeamAnnotation))]]

\* Two credentials mounted by the pods of one Deployment, which has several
\* pods and two ReplicaSets; the second credential expires 300 s after its
\* creation.
ScShared ==
    [secrets |-> << Secret("B", nX, Expiry(rawPast)),
                    Secret("B", nU, Expiry(rawRel)) >>,
     pods |-> << Pod("B", <<SecretVol(nX), SecretVol(nU)>>, {}, <<Owner("ReplicaSet", Rs(nWeb, <<"1">>), "true")>>),
                 Pod("B", <<SecretVol(nX)>>, {}, <<Owner("ReplicaSet", Rs(nWeb, <<"1">>), "true")>>),
                 Pod("B", <<SecretVol(nX)>>, {}, <<Owner("ReplicaSet", Rs(nWeb, <<"2">>), "true")>>) >>,
     replicaSets |-> { ReplicaSet("B", Rs(nWeb, <<"1">>), {nX, nU}, 2),
                       ReplicaSet("B", Rs(nWeb, <<"2">>), {nX}, 1) },
     deployments |-> [k \in {<<"B", nWeb>>} |-> Deployment(MapOf(TeamAnnotation))]]

\* One expired credential and every way of referring to it: a mounting pod
\* of a ReplicaSet, a pod reading it through the environment, a DaemonSet's
\* pod, a ReplicaSet with a one-segment name, owners that are no controller,
\* and ReplicaSets without live pods whose template mounts it.  A second
\* Secret carries no expiry annotation.
ScOwners ==
    [secrets |-> << Secret("B", nN, TeamAnnotation),
                    Secret("B", nX, Expiry(rawPast)) >>,
     pods |-> << Pod("B", <<SecretVol(nX)>>, {}, <<Owner("ReplicaSet", Rs(nWeb, <<"1">>), "true")>>),
                 Pod("B", <<OtherVol>>, {nX}, <<Owner("ReplicaSet", Rs(nApi, <<"1">>), "true")>>),
                 Pod("B", <<SecretVol(nX)>>, {}, <<Owner("DaemonSet", Rs(nDs, <<"1">>), "true")>>),
                 Pod("B", <<SecretVol(nX)>>, {}, <<Owner("ReplicaSet", nSolo, "true")>>),
                 Pod("B", <<SecretVol(nX)>>, {}, <<Owner("ReplicaSet", Rs(nJob, <<"1">>), "false"),
                                                   Owner("ReplicaSet", Rs(nJob, <<"2">>), "nil")>>),
                 Pod("B", <<SecretVol(nN)>>, {}, <<Owner("ReplicaSet", Rs(nApi, <<"1">>), "true")>>) >>,
     replicaSets |-> { ReplicaSet("B", Rs(nWeb, <<"1">>), {nX}, 1),
                       ReplicaSet("B", Rs(nWeb, <<"0">>), {nX}, 0),
                       ReplicaSet("B", Rs(nIdle, <<"1">>), {nX}, 0),
                       ReplicaSet("B", Rs(nApi, <<"1">>), {nN}, 2) },
     deployments |-> [k \in {<<"B", nWeb>>, <<"B", nApi>>, <<"B", nIdle>>,
                             <<"B", nJob>>} |-> Deployment(NilMap)]]

\* ReplicaSet names with several hyphens; one derives to a name that is no
\* Deployment.
ScGhost ==
    [secrets |-> << Secret("B", nX, Expiry(rawPast)) >>,
     pods |-> << Pod("B", <<SecretVol(nX)>>, {}, <<Owner("ReplicaSet", Rs(nOldApp, <<"1">>), "true")>>),
                 Pod("B", <<SecretVol(nX)>>, {}, <<Owner("ReplicaSet", Rs(nMyApp, <<"7">>), "true")>>) >>,
     replicaSets |-> { ReplicaSet("B", Rs(nOldApp, <<"1">>), {nX}, 1),
                       ReplicaSet("B", Rs(nMyApp, <<"7">>), {nX}, 1) },
     deployments |-> [k \in {<<"B", nMyApp>>} |-> Deployment(MapOf(TeamAnnotation))]]

Scenarios == <<ScEndToEnd, ScNamespaces, ScShared, ScOwners, ScGhost>>


\* ------------------------------------------------------------------- state
VARIABLES
    limits,       \* how far this behaviour's environment goes:
                  \* [ticks, faults, writes, elapse]
    world,        \* what the control plane holds and the program only reads:
                  \* [secrets, pods, replicaSets]
    deployments,  \* the stored Deployments, by <<namespace, name>>
    clock,        \* the time of the last reading of the clock
    elapsed,      \* readings that advanced the clock by Elapse
    ticks,        \* ticks the ticker has produced
    tickCh,       \* ticker.C, a channel of capacity 1: ticks waiting in it
    mainPc,       \* main: "select" (blocked in the select), "call" (in
                  \* checkSecrets)
    run,          \* the invocations of checkSecrets: their locals and position
    cycle,        \* invocations of checkSecrets so far
    faults,       \* failures injected so far
    otherWrites,  \* writes of other clients so far
    log,          \* the calls and outcomes of the current cycle, in order
    restarted,    \* the Deployments restarted in the cycles before this one
    reported      \* the errors of checkSecrets that main has printed

vars == <<limits, world, deployments, clock, elapsed, ticks, tickCh, mainPc, run, cycle,
          faults, otherWrites, log, restarted, reported>>

Runs == 1..MaxRuns

NoObj == [resourceVersion |-> 0, annotations |-> NilMap, replicas |-> 0]

\* the locals of an invocation of checkSecrets and of the calls below it
IdleRun ==
    [pc |-> "idle", now |-> StartTime, i |-> 0, todo |-> <<>>, steps |-> 0,
     att |-> 0, obj |-> NoObj, first |-> <<>>, err |-> "nil"]

\* one line of the log
Entry(r, op, sec, ns, name, att, ver, ts, res) ==
    [r |-> r, op |-> op, sec |-> sec, ns |-> ns, name |-> name, att |-> att,
     ver |-> ver, ts |-> ts, res |-> res]

\* all of the state but the limits of the environment
Start ==
    /\ \E k \in 1..Len(Scenarios) :
          /\ world = [secrets |-> Scenarios[k].secrets, pods |-> Scenarios[k].pods,
                      replicaSets |-> Scenarios[k].replicaSets]
          /\ deployments = Scenarios[k].deployments
    /\ clock = StartTime
    /\ elapsed = 0
    /\ ticks = 0
    /\ tickCh = 0
    /\ mainPc = "select"
    /\ run = [r \in Runs |-> IdleRun]
    /\ cycle = 0
    /\ faults = 0
    /\ otherWrites = 0
    /\ log = <<>>
    /\ restarted = {}
    /\ reported = 0

\* one cycle, with failures, writes of other clients and a moving clock
Init ==
    /\ limits = [ticks |-> MaxTicks, faults |-> MaxFaults,
                 writes |-> MaxOtherWrites, elapse |-> MaxElapse]
    /\ Start

\* several cycles, with failures
InitLoop ==
    /\ limits = [ticks |-> MaxLoopTicks, faults |-> MaxFaults, writes |-> 0,
                 elapse |-> 0]
    /\ Start

\* --------------------------------------------------------------- the clock
RECURSIVE TimesInterval(_)
\* the instant of the k-th tick: StartTime + k * PollInterval
TimesInterval(k) == IF k = 0 THEN StartTime
                    ELSE TimeAdd(TimesInterval(k - 1), PollInterval)

\* time.Now(): the clock has not moved since the last reading, or it has
\* advanced
NowChoices == {clock} \cup (IF elapsed < limits.elapse THEN {TimeAdd(clock, Elapse)} ELSE {})

ReadClock(t) ==
    /\ clock' = t
    /\ elapsed' = IF t = clock THEN elapsed ELSE elapsed + 1

\* The ticker fires every PollInterval, whatever main is doing; a tick that
\* finds the channel full is dropped.  A tick is seen only by main's select
\* and by the next reading of the clock, so it is taken when main is blocked
\* in the select or an invocation is about to read the clock.
Tick ==
    /\ ticks < limits.ticks
    /\ \/ mainPc = "select"
       \/ \E r \in 1..MaxRuns : run[r].pc \in {"list", "annotate"}
    /\ ticks' = ticks + 1
    /\ clock' = TimesInterval(ticks + 1)
    /\ tickCh' = 1
    /\ UNCHANGED <<limits, world, deployments, elapsed, mainPc, run, cycle, faults,
                   otherWrites, log, restarted, reported>>

\* ------------------------------------------------------------------- main
\* the mutant: go checkSecrets(clientset)
MainAfterCall_async == "select"

\* err := checkSecrets(clientset) is a call: main is in it until it returns
MainAfterCall == "call"

\* the Deployments that the log shows restarted
RestartedIn(lg) ==
    {<<lg[k].ns, lg[k].name>> : k \in {j \in 1..Len(lg) : lg[j].op = "Update" /\ lg[j].res = "ok"}}

\* case <-ticker.C: err := checkSecrets(clientset)
StartCycle(r) ==
    /\ mainPc = "select"
    /\ tickCh = 1
    /\ run[r].pc = "idle"
    /\ \A q \in Runs : q < r => run[q].pc # "idle"
    /\ tickCh' = 0
    /\ mainPc' = MainAfterCall
    /\ cycle' = cycle + 1
    /\ run' = [run EXCEPT ![r] = [IdleRun EXCEPT !.pc = "list"]]
    /\ restarted' = restarted \cup RestartedIn(log)
    /\ log' = <<>>
    /\ UNCHANGED <<limits, world, deployments, clock, elapsed, ticks, faults, otherWrites,
                   reported>>

\* the mutant: log.Fatal on an error of checkSecrets
MainAfterReturn_exits(err) == IF err = "nil" THEN "select" ELSE "exit"

\* if err != nil { fmt.Println(...) }, and the for loop selects again
MainAfterReturn(err) == "select"

\* checkSecrets returns; main prints the error, if any, and selects again
Return(r) ==
    /\ run[r].pc = "ret"
    /\ run' = [run EXCEPT ![r].pc = "idle"]
    /\ mainPc' = MainAfterReturn(run[r].err)
    /\ log' = IF run[r].err = "nil" THEN log
              ELSE Append(log, Entry(r, "PrintError", 0, "", <<>>, 0, 0, <<>>, run[r].err))
    /\ reported' = IF run[r].err = "nil" THEN reported ELSE reported + 1
    /\ UNCHANGED <<limits, world, deployments, clock, elapsed, ticks, tickCh, cycle,
                   faults, otherWrites, restarted>>

\* ------------------------------------------------------------ checkSecrets
\* a control-plane call may fail while failures are left to inject
MayFail == faults < limits.faults

\* expiryRaw, ok := secret.Annotations[ExpiryAnnotationKey]
HasExpiry(secret) == ExpiryAnnotationKey \in DOMAIN secret.annotations

\* the mutant: every annotated Secret that parses is handled
VerdictOf_ignoresExpired(ev) == IF ev.err THEN "invalid" ELSE "expired"

\* expired, err := isSecretExpired(...); if err != nil { continue };
\* if expired { handleExpiredSecret }
VerdictOf(ev) ==
    IF ev.err THEN "invalid" ELSE IF ev.expired THEN "expired" ELSE "fresh"

\* What the loop body of checkSecrets decides for one Secret: "none" (no
\* annotation: continue), "invalid" (error of isSecretExpired: print,
\* continue), "expired" (handleExpiredSecret), "fresh" (nothing).
Verdict(secret, now) ==
    IF ~HasExpiry(secret) THEN "none"
    ELSE VerdictOf(isSecretExpired(secret, secret.annotations[ExpiryAnnotationKey],
                                   now))

\* the mutant: an error for one Secret ends checkSecrets
OnSecretError_returns(rec) == [rec EXCEPT !.pc = "ret", !.err = "error"]

\* After an error for one Secret (of isSecretExpired or of
\* handleExpiredSecret) checkSecrets prints it and goes on with the next.
OnSecretError(rec) == [rec EXCEPT !.pc = "loop", !.i = @ + 1]

\* secrets, err := clientset.CoreV1().Secrets("").List(...); now := time.Now()
ListSecrets(r) ==
    /\ run[r].pc = "list"
    /\ \/ /\ MayFail
          /\ faults' = faults + 1
          /\ run' = [run EXCEPT ![r].pc = "ret", ![r].err = "failed to list secrets"]
          /\ log' = Append(log, Entry(r, "ListSecrets", 0, "", <<>>, 0, 0, <<>>, "error"))
          /\ UNCHANGED <<clock, elapsed>>
       \/ /\ \E t \in NowChoices :
                /\ ReadClock(t)
                /\ run' = [run EXCEPT ![r].pc = "loop", ![r].now = t, ![r].i = 1]
          /\ log' = Append(log, Entry(r, "ListSecrets", 0, "", <<>>, 0, 0, <<>>, "ok"))
          /\ UNCHANGED faults
    /\ UNCHANGED <<limits, world, deployments, ticks, tickCh, mainPc, cycle, otherWrites,
                   restarted, reported>>

\* the body of the loop for the Secret at run[r].i, given its verdict
CheckSecret(r, secret, v) ==
    /\ log' = Append(log, Entry(r, "Eval", run[r].i, secret.namespace, secret.name,
                                0, 0, <<>>, v))
    /\ run' = [run EXCEPT ![r] =
                 IF v = "expired" THEN [@ EXCEPT !.pc = "pods"]
                 ELSE IF v = "invalid" THEN OnSecretError(@)
                 ELSE [@ EXCEPT !.i = @ + 1]]

\* for _, secret := range secrets.Items { ... }: one iteration up to the
\* call of handleExpiredSecret, or the return nil after the last one
CheckNext(r) ==
    /\ run[r].pc = "loop"
    /\ IF run[r].i > Len(world.secrets)
       THEN /\ run' = [run EXCEPT ![r].pc = "ret", ![r].err = "nil"]
            /\ UNCHANGED log
       ELSE CheckSecret(r, world.secrets[run[r].i],
                        Verdict(world.secrets[run[r].i], run[r].now))
    /\ UNCHANGED <<limits, world, deployments, clock, elapsed, ticks, tickCh, mainPc,
                   cycle, faults, otherWrites, restarted, reported>>

\* ------------------------------------------------------ handleExpiredSecret
\* the mutant: a reference through the environment counts as well
podUsesSecret_orEnv(pod, secretName) ==
    \/ secretName \in pod.env
    \/ \E k \in 1..Len(pod.volumes) :
          pod.volumes[k].secret /\ pod.volumes[k].secretName = secretName

\* func podUsesSecret(pod *v1.Pod, secretName string) bool
podUsesSecret(pod, secretName) ==
    \E k \in 1..Len(pod.volumes) :
        pod.volumes[k].secret /\ pod.volumes[k].secretName = secretName

\* owner.Kind == "ReplicaSet" && owner.Controller != nil && *owner.Controller
IsControllerReplicaSet(owner) ==
    owner.kind = "ReplicaSet" /\ owner.controller = "true"

RECURSIVE Flatten(_)
Flatten(ss) == IF Len(ss) = 0 THEN <<>> ELSE Head(ss) \o Flatten(Tail(ss))

Range(f) == {f[k] : k \in DOMAIN f}

\* the Deployment names one pod contributes, in the order of its owners
OwnerNames(pod) ==
    LET owners == SelectSeq(pod.ownerReferences, IsControllerReplicaSet)
        names  == [k \in 1..Len(owners) |-> extractDeploymentName(owners[k].name)]
    IN  SelectSeq(names, LAMBDA n : n # <<>>)

\* the names the loop over pods.Items stores in affectedDeployments, in order
DerivedNames(pods, secretName) ==
    LET users == SelectSeq(pods, LAMBDA p : podUsesSecret(p, secretName))
    IN  Flatten([k \in 1..Len(users) |-> OwnerNames(users[k])])

\* affectedDeployments := map[string]bool{}: its keys
affectedDeployments(pods, secretName) == Range(DerivedNames(pods, secretName))

Orderings(S) ==
    {p \in [1..Cardinality(S) -> S] : \A a, b \in 1..Cardinality(S) : a # b => p[a] # p[b]}

\* the mutant: a restart per pod and owner, no map
RestartOrders_perPod(pods, secretName) == {DerivedNames(pods, secretName)}

\* the mutant: a Deployment restarted in an earlier cycle is left alone
RestartOrders_skipsRestarted(pods, secretName) ==
    Orderings(affectedDeployments(pods, secretName) \ {key[2] : key \in restarted})

\* for dep := range affectedDeployments: a map is ranged over in any order,
\* each key once
RestartOrders(pods, secretName) == Orderings(affectedDeployments(pods, secretName))

\* the mutant: pods of all namespaces
PodsNamespace_all(secret) == ""

\* clientset.CoreV1().Pods(secret.Namespace)
PodsNamespace(secret) == secret.namespace

\* the mutant: a fixed namespace
DeploymentsNamespace_fixed(secret) == "A"

\* rolloutRestartDeployment(clientset, secret.Namespace, dep)
DeploymentsNamespace(secret) == secret.namespace

\* Pods(ns).List: the pods of the namespace; "" is all namespaces
PodList(ns) == SelectSeq(world.pods, LAMBDA p : ns = "" \/ p.namespace = ns)

\* pods, err := ...Pods(secret.Namespace).List(...) and the loop over the pods
ListPods(r) ==
    LET secret == world.secrets[run[r].i]
        ns == PodsNamespace(secret)
    IN  /\ run[r].pc = "pods"
        /\ \/ /\ MayFail
              /\ faults' = faults + 1
              /\ run' = [run EXCEPT ![r] = OnSecretError(@)]
              /\ log' = Append(log, Entry(r, "ListPods", run[r].i, ns, <<>>, 0, 0,
                                          <<>>, "error"))
           \/ /\ \E order \in RestartOrders(PodList(ns), secret.name) :
                    run' = [run EXCEPT ![r].pc = "range", ![r].todo = order]
              /\ log' = Append(log, Entry(r, "ListPods", run[r].i, ns, <<>>, 0, 0,
                                          <<>>, "ok"))
              /\ UNCHANGED faults
        /\ UNCHANGED <<limits, world, deployments, clock, elapsed, ticks, tickCh, mainPc,
                       cycle, otherWrites, restarted, reported>>

\* for dep := range affectedDeployments { ... }: the next Deployment, or the
\* return nil of handleExpiredSecret
RangeNext(r) ==
    LET secret == world.secrets[run[r].i]
    IN  /\ run[r].pc = "range"
        /\ IF run[r].todo = <<>>
           THEN /\ run' = [run EXCEPT ![r].pc = "loop", ![r].i = @ + 1]
                /\ UNCHANGED log
           ELSE /\ run' = [run EXCEPT ![r].pc = "get", ![r].steps = RetrySteps,
                                      ![r].att = 1, ![r].first = <<>>]
                /\ log' = Append(log, Entry(r, "Restart", run[r].i,
                                            DeploymentsNamespace(secret),
                                            Head(run[r].todo), 0, 0, <<>>, ""))
        /\ UNCHANGED <<limits, world, deployments, clock, elapsed, ticks, tickCh, mainPc,
                       cycle, faults, otherWrites, restarted, reported>>


\* -------------------------------------------------- rolloutRestartDeployment
\* the Deployment the invocation is restarting: <<namespace, name>>
Target(r) == <<DeploymentsNamespace(world.secrets[run[r].i]), Head(run[r].todo)>>

\* the mutant: a failed restart ends handleExpiredSecret with the error
AfterRestart_returnsError(rec, res) ==
    IF res = "nil" THEN [rec EXCEPT !.pc = "range", !.todo = Tail(@)]
    ELSE OnSecretError(rec)

\* the mutant: an error that is no conflict is retried like a conflict
AfterRestart_retriesErrors(rec, res) ==
    IF res \in {"error", "notfound"} /\ rec.steps > 1
    THEN [rec EXCEPT !.pc = "get", !.steps = @ - 1, !.att = @ + 1]
    ELSE [rec EXCEPT !.pc = "range", !.todo = Tail(@)]

\* err := rolloutRestartDeployment(...); if err != nil { fmt.Printf(...) }:
\* the loop goes on with the next Deployment, whatever the result
AfterRestart(rec, res) == [rec EXCEPT !.pc = "range", !.todo = Tail(@)]

\* the mutant: the object fetched by the first attempt is kept
FetchedObject_reused(rec, stored) == IF rec.att > 1 THEN rec.obj ELSE stored

\* dep, err := depClient.Get(...), in the function that RetryOnConflict
\* calls for every attempt
FetchedObject(rec, stored) == stored

\* the mutant: the timestamp of the first attempt is kept
RestartStamp_first(rec, t) == IF rec.att > 1 THEN rec.first ELSE FormatRFC3339(t)

\* time.Now().Format(time.RFC3339), evaluated in every attempt
RestartStamp(rec, t) == FormatRFC3339(t)

\* the mutant: the map is made anew
SetAnnotation_replaces(ann, key, value) == MapOf([k \in {key} |-> value])

\* dep.Spec.Template.Annotations[key] = value, on a map made if it was nil
SetAnnotation(ann, key, value) ==
    LET m == IF ann.nil THEN NoAnnotations ELSE ann.m
    IN  MapOf([k \in DOMAIN m \cup {key} |-> IF k = key THEN value ELSE m[k]])

\* the mutant: a write is accepted whatever version it is based on
UpdateAccepted_always(obj, stored) == TRUE

\* Update is conditioned on the stored resourceVersion being the one read
UpdateAccepted(obj, stored) == obj.resourceVersion = stored.resourceVersion

\* the mutant: conflicts are not retried
RetryAgain_never(steps) == FALSE

\* the mutant: conflicts are retried without a budget
RetryAgain_always(steps) == TRUE

\* wait.ExponentialBackoff under retry.DefaultRetry: after a conflict the
\* function is called again while steps are left
RetryAgain(steps) == steps > 1

\* dep, err := depClient.Get(ctx, deploymentName, ...)
GetDeployment(r) ==
    LET key == Target(r)
    IN  /\ run[r].pc = "get"
        /\ \/ /\ MayFail
              /\ faults' = faults + 1
              /\ run' = [run EXCEPT ![r] = AfterRestart(@, "error")]
              /\ log' = Append(log, Entry(r, "Get", run[r].i, key[1], key[2],
                                          run[r].att, 0, <<>>, "error"))
           \/ /\ key \notin DOMAIN deployments
              /\ run' = [run EXCEPT ![r] = AfterRestart(@, "notfound")]
              /\ log' = Append(log, Entry(r, "Get", run[r].i, key[1], key[2],
                                          run[r].att, 0, <<>>, "notfound"))
              /\ UNCHANGED faults
           \/ /\ key \in DOMAIN deployments
              /\ LET obj == FetchedObject(run[r], deployments[key])
                 IN  /\ run' = [run EXCEPT ![r].pc = "annotate", ![r].obj = obj]
                     /\ log' = Append(log, Entry(r, "Get", run[r].i, key[1], key[2],
                                                 run[r].att, deployments[key].resourceVersion,
                                                 <<>>, "ok"))
              /\ UNCHANGED faults
        /\ UNCHANGED <<limits, world, deployments, clock, elapsed, ticks, tickCh, mainPc,
                       cycle, otherWrites, restarted, reported>>

\* dep.Spec.Template.Annotations[...] = time.Now().Format(time.RFC3339)
Annotate(r) ==
    LET key == Target(r)
    IN  /\ run[r].pc = "annotate"
        /\ \E t \in NowChoices :
              LET stamp == RestartStamp(run[r], t)
              IN  /\ ReadClock(t)
                  /\ run' = [run EXCEPT
                               ![r].pc = "update",
                               ![r].obj.annotations = SetAnnotation(@, RestartedAtKey, stamp),
                               ![r].first = IF run[r].att = 1 THEN stamp ELSE @]
                  /\ log' = Append(log, Entry(r, "Annotate", run[r].i, key[1], key[2],
                                              run[r].att, run[r].obj.resourceVersion,
                                              FormatRFC3339(t), ""))
        /\ UNCHANGED <<limits, world, deployments, ticks, tickCh, mainPc, cycle, faults,
                       otherWrites, restarted, reported>>

\* _, err = depClient.Update(ctx, dep, ...), and what RetryOnConflict does
\* with the result
UpdateDeployment(r) ==
    LET key == Target(r)
        obj == run[r].obj
        e(res) == Entry(r, "Update", run[r].i, key[1], key[2], run[r].att,
                        obj.resourceVersion, obj.annotations.m[RestartedAtKey], res)
    IN  /\ run[r].pc = "update"
        /\ \/ /\ MayFail
              /\ faults' = faults + 1
              /\ run' = [run EXCEPT ![r] = AfterRestart(@, "error")]
              /\ log' = Append(log, e("error"))
              /\ UNCHANGED deployments
           \/ /\ ~UpdateAccepted(obj, deployments[key])
              /\ run' = [run EXCEPT ![r] =
                           IF RetryAgain(@.steps)
                           THEN [@ EXCEPT !.pc = "get", !.steps = @ - 1, !.att = @ + 1]
                           ELSE AfterRestart(@, "conflict")]
              /\ log' = Append(log, e("conflict"))
              /\ UNCHANGED <<deployments, faults>>
           \/ /\ UpdateAccepted(obj, deployments[key])
              /\ deployments' = [deployments EXCEPT
                                   ![key] = [obj EXCEPT !.resourceVersion =
                                               deployments[key].resourceVersion + 1]]
              /\ run' = [run EXCEPT ![r] = AfterRestart(@, "nil")]
              /\ log' = Append(log, e("ok"))
              /\ UNCHANGED faults
        /\ UNCHANGED <<limits, world, clock, elapsed, ticks, tickCh, mainPc, cycle,
                       otherWrites, restarted, reported>>

\* ------------------------------------------------------------ other clients
\* the Deployments of which a restart is in flight: the function given to
\* RetryOnConflict is about to read, has read or is about to write them
InFlight ==
    {Target(r) : r \in {q \in Runs : run[q].pc \in {"get", "annotate", "update"}}}

\* Another client of the control plane writes a Deployment (here: scales
\* it); the stored version changes.  Such writes are modelled while a restart
\* of the Deployment is in flight: at any other time they only change the
\* version that the next Get reads.
OtherWrite ==
    /\ otherWrites < limits.writes
    /\ \E key \in DOMAIN deployments \cap InFlight :
          deployments' = [deployments EXCEPT ![key].resourceVersion = @ + 1,
                                             ![key].replicas = @ + 1]
    /\ otherWrites' = otherWrites + 1
    /\ UNCHANGED <<limits, world, clock, elapsed, ticks, tickCh, mainPc, run, cycle, faults,
                   log, restarted, reported>>

\* -------------------------------------------------------------------- spec
Next ==
    \/ Tick
    \/ OtherWrite
    \/ \E r \in Runs : StartCycle(r)
    \/ \E r \in Runs : ListSecrets(r)
    \/ \E r \in Runs : CheckNext(r)
    \/ \E r \in Runs : ListPods(r)
    \/ \E r \in Runs : RangeNext(r)
    \/ \E r \in Runs : GetDeployment(r)
    \/ \E r \in Runs : Annotate(r)
    \/ \E r \in Runs : UpdateDeployment(r)
    \/ \E r \in Runs : Return(r)

Spec == Init /\ [][Next]_vars

\* the polling loop over several ticks; no other client writes
NextLoop ==
    \/ Tick
    \/ \E r \in Runs : StartCycle(r)
    \/ \E r \in Runs : ListSecrets(r)
    \/ \E r \in Runs : CheckNext(r)
    \/ \E r \in Runs : ListPods(r)
    \/ \E r \in Runs : RangeNext(r)
    \/ \E r \in Runs : GetDeployment(r)
    \/ \E r \in Runs : Annotate(r)
    \/ \E r \in Runs : UpdateDeployment(r)
    \/ \E r \in Runs : Return(r)

SpecLoop == InitLoop /\ [][NextLoop]_vars


\* ------------------------------------------------------ expiry evaluation
\* An expiry value with what the formats of the annotation say of it: its
\* kind ("absolute": one of the three layouts; "seconds": a non-negative
\* integer; "other": none of the formats), and the seconds n that put the
\* instant it names after StartTime (absolute) or after the creation of the
\* Secret (seconds); huge marks a number of seconds too large for n.
EvalCase(raw, kind, n, huge) == [raw |-> raw, kind |-> kind, n |-> n, huge |-> huge]

EvalValues ==
    << \* "2025-01-01T00:05:00Z"
       EvalCase(<<"2", "0", "2", "5", "-", "0", "1", "-", "0", "1", "T", "0", "0", ":", "0", "5", ":", "0", "0", "Z">>,
                "absolute", 300, FALSE),
       \* "2025-01-01T00:05:01Z"
       EvalCase(<<"2", "0", "2", "5", "-", "0", "1", "-", "0", "1", "T", "0", "0", ":", "0", "5", ":", "0", "1", "Z">>,
                "absolute", 301, FALSE),
       \* "2025-01-01T01:05:00+01:00"
       EvalCase(<<"2", "0", "2", "5", "-", "0", "1", "-", "0", "1", "T", "0", "1", ":", "0", "5", ":", "0", "0", "+", "0", "1", ":", "0", "0">>,
                "absolute", 300, FALSE),
       \* "2024-12-31T19:05:02-05:00"
       EvalCase(<<"2", "0", "2", "4", "-", "1", "2", "-", "3", "1", "T", "1", "9", ":", "0", "5", ":", "0", "2", "-", "0", "5", ":", "0", "0">>,
                "absolute", 302, FALSE),
       \* "2025-01-01T00:05:01"
       EvalCase(<<"2", "0", "2", "5", "-", "0", "1", "-", "0", "1", "T", "0", "0", ":", "0", "5", ":", "0", "1">>,
                "absolute", 301, FALSE),
       \* "2025-01-01"
       EvalCase(<<"2", "0", "2", "5", "-", "0", "1", "-", "0", "1">>,
                "absolute", 0, FALSE),
       \* "2025-01-02"
       EvalCase(<<"2", "0", "2", "5", "-", "0", "1", "-", "0", "2">>,
                "absolute", 86400, FALSE),
       \* "300"
       EvalCase(<<"3", "0", "0">>,
                "seconds", 300, FALSE),
       \* "301"
       EvalCase(<<"3", "0", "1">>,
                "seconds", 301, FALSE),
       \* "0"
       EvalCase(<<"0">>,
                "seconds", 0, FALSE),
       \* "0300"
       EvalCase(<<"0", "3", "0", "0">>,
                "seconds", 300, FALSE),
       \* "3600"
       EvalCase(<<"3", "6", "0", "0">>,
                "seconds", 3600, FALSE),
       \* "9999999999"
       EvalCase(<<"9", "9", "9", "9", "9", "9", "9", "9", "9", "9">>,
                "seconds", 0, TRUE),
       \* "soon"
       EvalCase(<<"s", "o", "o", "n">>,
                "other", 0, FALSE),
       \* ""
       EvalCase(<<>>,
                "other", 0, FALSE),
       \* "5h"
       EvalCase(<<"5", "h">>,
                "other", 0, FALSE),
       \* "2025-13-01"
       EvalCase(<<"2", "0", "2", "5", "-", "1", "3", "-", "0", "1">>,
                "other", 0, FALSE),
       \* "-5"
       EvalCase(<<"-", "5">>,
                "other", 0, FALSE),
       \* "1.5"
       EvalCase(<<"1", ".", "5">>,
                "other", 0, FALSE),
       \* "1m"
       EvalCase(<<"1", "m">>,
                "other", 0, FALSE) >>

\* the creation instants of the Secret: a second before StartTime,
\* StartTime, two seconds after it
EvalCreations ==
    { TimeAdd(StartTime, MkDuration(TRUE, 1, 0)), StartTime,
      TimeAdd(StartTime, MkDuration(FALSE, 2, 0)) }

\* One Secret with an expiry value and a creation instant, mounted by the
\* pod of one Deployment.
ScEval(raw, created) ==
    [secrets |-> << [Secret("B", nX, Expiry(raw)) EXCEPT !.creationTimestamp = created] >>,
     pods |-> << Pod("B", <<SecretVol(nX)>>, {}, <<Owner("ReplicaSet", Rs(nWeb, <<"1">>), "true")>>) >>,
     replicaSets |-> { ReplicaSet("B", Rs(nWeb, <<"1">>), {nX}, 1) },
     deployments |-> [k \in {<<"B", nWeb>>} |-> Deployment(NilMap)]]

\* the state after construction, in a world sc
StartIn(sc) ==
    /\ world = [secrets |-> sc.secrets, pods |-> sc.pods, replicaSets |-> sc.replicaSets]
    /\ deployments = sc.deployments
    /\ clock = StartTime
    /\ elapsed = 0
    /\ ticks = 0
    /\ tickCh = 0
    /\ mainPc = "select"
    /\ run = [r \in Runs |-> IdleRun]
    /\ cycle = 0
    /\ faults = 0
    /\ otherWrites = 0
    /\ log = <<>>
    /\ restarted = {}
    /\ reported = 0

\* one cycle over a Secret whose expiry value and creation instant are drawn
\* from EvalValues and EvalCreations; the clock moves
InitEval ==
    /\ limits = [ticks |-> MaxTicks, faults |-> 0, writes |-> 0, elapse |-> MaxElapse]
    /\ \E k \in 1..Len(EvalValues) : \E created \in EvalCreations :
          StartIn(ScEval(EvalValues[k].raw, created))

SpecEval == InitEval /\ [][NextLoop]_vars

\* ------------------------------------------------------ ReplicaSet names
\* a ReplicaSet name with the Deployment name that dropping its last
\* hyphen-separated segment leaves (empty: no Deployment)
NameCase(rs, dep) == [rs |-> rs, dep |-> dep]

NameValues ==
    << \* "myapp-7d8f9c9c79" gives "myapp"
       NameCase(<<"m", "y", "a", "p", "p", "-", "7", "d", "8", "f", "9", "c", "9", "c", "7", "9">>,
                <<"m", "y", "a", "p", "p">>),
       \* "myapp" gives ""
       NameCase(<<"m", "y", "a", "p", "p">>,
                <<>>),
       \* "my-app-7" gives "my-app"
       NameCase(<<"m", "y", "-", "a", "p", "p", "-", "7">>,
                <<"m", "y", "-", "a", "p", "p">>),
       \* "a-b-c-d" gives "a-b-c"
       NameCase(<<"a", "-", "b", "-", "c", "-", "d">>,
                <<"a", "-", "b", "-", "c">>),
       \* "web-1" gives "web"
       NameCase(<<"w", "e", "b", "-", "1">>,
                <<"w", "e", "b">>),
       \* "x-" gives "x"
       NameCase(<<"x", "-">>,
                <<"x">>),
       \* "a--b" gives "a-"
       NameCase(<<"a", "-", "-", "b">>,
                <<"a", "-">>),
       \* "-x" gives ""
       NameCase(<<"-", "x">>,
                <<>>),
       \* "" gives ""
       NameCase(<<>>,
                <<>>) >>

nMyapp == <<"m", "y", "a", "p", "p">>

\* One expired Secret, mounted by a pod whose controller is the ReplicaSet
\* rs; of the names derived from ReplicaSet names, myapp and web are
\* Deployments.
ScNames(rs) ==
    [secrets |-> << Secret("B", nX, Expiry(rawPast)) >>,
     pods |-> << Pod("B", <<SecretVol(nX)>>, {}, <<Owner("ReplicaSet", rs, "true")>>) >>,
     replicaSets |-> { ReplicaSet("B", rs, {nX}, 1) },
     deployments |-> [k \in {<<"B", nMyapp>>, <<"B", nWeb>>} |-> Deployment(NilMap)]]

\* one cycle, with failures, over a pod of a ReplicaSet whose name is drawn
\* from NameValues
InitNames ==
    /\ limits = [ticks |-> MaxTicks, faults |-> MaxFaults, writes |-> 0, elapse |-> 0]
    /\ \E k \in 1..Len(NameValues) : StartIn(ScNames(NameValues[k].rs))

SpecNames == InitNames /\ [][NextLoop]_vars

\* ------------------------------------------------------ a conflicting writer
\* One cycle in which another client writes the Deployment under restart
\* up to MaxConflictWrites times: more often than RetryOnConflict retries.
InitConflict ==
    /\ limits = [ticks |-> MaxTicks, faults |-> 0, writes |-> MaxConflictWrites,
                 elapse |-> 0]
    /\ StartIn(ScNames(Rs(nWeb, <<"1">>)))

\* the steps of the program, without those of the ticker and of the other
\* clients
Program ==
    \E r \in Runs :
        \/ StartCycle(r) \/ ListSecrets(r) \/ CheckNext(r) \/ ListPods(r)
        \/ RangeNext(r) \/ GetDeployment(r) \/ Annotate(r) \/ UpdateDeployment(r)
        \/ Return(r)

\* Every call of the control plane returns and the process is scheduled:
\* the program takes its next step.
SpecConflict == InitConflict /\ [][Next]_vars /\ WF_vars(Program)

\* ------------------------------------------------------ reading the log
Lines == 1..Len(log)

\* the calls made on behalf of a Secret
CallOps == {"ListPods", "Restart", "Get", "Annotate", "Update"}

\* the Secret at position i of the list is annotated, parses and is expired
\* at the instant now
ExpiredAt(i, now) ==
    /\ ExpiryAnnotationKey \in DOMAIN world.secrets[i].annotations
    /\ isSecretExpired(world.secrets[i],
                       world.secrets[i].annotations[ExpiryAnnotationKey], now)
          = [err |-> FALSE, expired |-> TRUE]

\* the Deployment names that the pods of the Secret's own namespace yield
ImplicatedBy(i) ==
    LET secret == world.secrets[i]
        pods == SelectSeq(world.pods, LAMBDA p : p.namespace = secret.namespace)
    IN  Range(DerivedNames(pods, secret.name))

\* invocation r listed the Secrets and has gone through its loop
Finished(r) ==
    /\ run[r].pc = "ret"
    /\ \E k \in Lines : log[k].r = r /\ log[k].op = "ListSecrets" /\ log[k].res = "ok"

\* handleExpiredSecret has returned for the Secret at position i
Handled(r, i) == run[r].pc = "ret" \/ (run[r].pc # "idle" /\ run[r].i > i)

\* the outcomes that are failures
IsFailure(e) ==
    \/ e.op = "Eval" /\ e.res = "invalid"
    \/ e.op \in {"ListPods", "Get", "Update"} /\ e.res \in {"error", "notfound", "conflict"}

\* --------------------------------------------------------------- the claims

\* C1 as stated: within one run of checkSecrets a restart is triggered at
\* most once per Deployment identity (namespace, name).
C1_OncePerCycle ==
    \A j, k \in Lines :
        ( /\ log[j].op = "Restart" /\ log[k].op = "Restart"
          /\ log[j].r = log[k].r
          /\ log[j].ns = log[k].ns /\ log[j].name = log[k].name ) => j = k

\* C1 amended: within the handling of one expired credential (one run of
\* handleExpiredSecret) a restart is triggered at most once per Deployment,
\* through however many pods and ReplicaSets the Deployment is found.
C1_OncePerCredential ==
    \A j, k \in Lines :
        ( /\ log[j].op = "Restart" /\ log[k].op = "Restart"
          /\ log[j].r = log[k].r /\ log[j].sec = log[k].sec
          /\ log[j].ns = log[k].ns /\ log[j].name = log[k].name ) => j = k

\* a cycle has ended in which a Deployment found through several pods and
\* two ReplicaSets was restarted
C1_Witness ==
    \E r \in Runs : \E k \in Lines :
        /\ Finished(r)
        /\ log[k].op = "Restart" /\ log[k].r = r
        /\ LET secret == world.secrets[log[k].sec]
               names  == DerivedNames(PodList(secret.namespace), secret.name)
           IN  \E a, b \in 1..Len(names) : a # b /\ names[a] = names[b]
                                              /\ names[a] = log[k].name

\* C2: every pod list, Deployment get and Deployment update made for a
\* credential targets the credential's namespace, and a Deployment carries a
\* restart annotation only if its own namespace holds an expired credential.
C2_NamespaceScoped ==
    /\ \A k \in Lines :
          log[k].op \in CallOps => log[k].ns = world.secrets[log[k].sec].namespace
    /\ \A key \in DOMAIN deployments :
          (~deployments[key].annotations.nil
             /\ RestartedAtKey \in DOMAIN deployments[key].annotations.m)
          => \E i \in 1..Len(world.secrets) :
                world.secrets[i].namespace = key[1] /\ ExpiredAt(i, clock)

\* a Deployment of namespace B was restarted for a credential whose name a
\* pod of another namespace mounts, too
C2_Witness ==
    \E k \in Lines :
        /\ log[k].op = "Update" /\ log[k].res = "ok"
        /\ \E n \in 1..Len(world.pods) :
              /\ world.pods[n].namespace # log[k].ns
              /\ podUsesSecret(world.pods[n], world.secrets[log[k].sec].name)

\* C3: once the credentials are listed, every one of them is evaluated,
\* every expired one is resolved and, where the pod list succeeds, a restart
\* is started for each of its Deployments, whatever failed before it.
C3_CycleNotAborted ==
    \A r \in Runs :
        Finished(r) =>
            \A i \in 1..Len(world.secrets) :
                /\ \E k \in Lines : log[k].r = r /\ log[k].op = "Eval" /\ log[k].sec = i
                /\ ExpiredAt(i, run[r].now) =>
                      \E k \in Lines :
                          /\ log[k].r = r /\ log[k].op = "ListPods" /\ log[k].sec = i
                          /\ log[k].res = "ok" =>
                                \A d \in ImplicatedBy(i) :
                                    \E m \in Lines :
                                        /\ m > k /\ log[m].r = r /\ log[m].op = "Get"
                                        /\ log[m].sec = i /\ log[m].name = d

\* the pod list failed for one credential and a Deployment of a later
\* credential was restarted in the same cycle
C3_Witness ==
    \E j, k \in Lines :
        /\ j < k
        /\ log[j].op = "ListPods" /\ log[j].res = "error"
        /\ log[k].op = "Update" /\ log[k].res = "ok"
        /\ log[k].r = log[j].r /\ log[k].sec > log[j].sec

\* C4: when handleExpiredSecret has returned for a credential whose pods
\* were listed, a restart was attempted for every implicated Deployment,
\* whatever the result of the other restarts.
C4_EveryDeploymentAttempted ==
    \A k \in Lines :
        ( /\ log[k].op = "ListPods" /\ log[k].res = "ok"
          /\ Handled(log[k].r, log[k].sec) )
        => \A d \in ImplicatedBy(log[k].sec) :
              /\ \E m \in Lines :
                    /\ m > k /\ log[m].op = "Restart" /\ log[m].r = log[k].r
                    /\ log[m].sec = log[k].sec /\ log[m].name = d
              /\ \E m \in Lines :
                    /\ m > k /\ log[m].op = "Get" /\ log[m].r = log[k].r
                    /\ log[m].sec = log[k].sec /\ log[m].name = d /\ log[m].att = 1

\* the restart of one Deployment failed and the restart of another
\* Deployment of the same credential then succeeded
C4_Witness ==
    \E j, k \in Lines :
        /\ j < k
        /\ log[j].op \in {"Get", "Update"} /\ IsFailure(log[j])
        /\ log[j].res # "conflict"
        /\ log[k].op = "Update" /\ log[k].res = "ok"
        /\ log[k].r = log[j].r /\ log[k].sec = log[j].sec
        /\ log[k].name # log[j].name


\* C5: every Update carries the version that the Get of the same attempt
\* returned: the Get precedes it with nothing but the annotation in between.
C5_UpdateCarriesFreshGet ==
    \A k \in Lines :
        log[k].op = "Update" =>
            \E j \in 1..(k - 1) :
                /\ log[j].op = "Get" /\ log[j].res = "ok"
                /\ log[j].r = log[k].r /\ log[j].sec = log[k].sec
                /\ log[j].ns = log[k].ns /\ log[j].name = log[k].name
                /\ log[j].att = log[k].att
                /\ log[j].ver = log[k].ver
                /\ \A m \in (j + 1)..(k - 1) :
                      log[m].r = log[k].r =>
                          /\ log[m].op = "Annotate" /\ log[m].att = log[k].att
                          /\ log[m].ver = log[k].ver

\* an Update of a second or later attempt was accepted
C5_Witness ==
    \E k \in Lines : log[k].op = "Update" /\ log[k].att >= 2 /\ log[k].res = "ok"

\* the lines of the restart that the line k belongs to
RestartOf(k) ==
    LET starts == {j \in 1..k : log[j].op = "Restart" /\ log[j].r = log[k].r}
        start  == CHOOSE j \in starts : \A q \in starts : q <= j
    IN  {m \in start..k : log[m].r = log[k].r}

\* C6: right after a restart that met one conflict and then succeeded, two
\* writes were attempted, the first was rejected, the second accepted, and
\* the stored annotation is the timestamp of the second attempt.
C6_OneConflictThenSuccess ==
    ( /\ Len(log) > 0
      /\ log[Len(log)].op = "Update" /\ log[Len(log)].res = "ok"
      /\ log[Len(log)].att = 2 )
    => LET last == log[Len(log)]
           mine == RestartOf(Len(log))
           ups  == {m \in mine : log[m].op = "Update"}
           ann2 == {m \in mine : log[m].op = "Annotate" /\ log[m].att = 2}
           stored == deployments[<<last.ns, last.name>>]
       IN  /\ Cardinality(ups) = 2
           /\ Cardinality({m \in ups : log[m].res = "ok"}) = 1
           /\ \E m \in ups : log[m].att = 1 /\ log[m].res = "conflict"
           /\ Cardinality(ann2) = 1
           /\ \A m \in ann2 : stored.annotations.m[RestartedAtKey] = log[m].ts

\* such a restart has just ended, and its two attempts computed different
\* timestamps
C6_Witness ==
    /\ Len(log) > 0
    /\ log[Len(log)].op = "Update" /\ log[Len(log)].res = "ok"
    /\ log[Len(log)].att = 2
    /\ \E a, b \in RestartOf(Len(log)) :
          /\ log[a].op = "Annotate" /\ log[a].att = 1
          /\ log[b].op = "Annotate" /\ log[b].att = 2
          /\ log[a].ts # log[b].ts

\* C7: pod lists, Deployment gets and Deployment updates are made only for
\* credentials that carry the annotation, parse and are expired at the
\* cycle's now.
C7_CallsOnlyForExpired ==
    \A k \in Lines :
        log[k].op \in CallOps => ExpiredAt(log[k].sec, run[log[k].r].now)

\* a cycle has ended that saw a Secret without the annotation, a malformed
\* one, one that is not expired and an expired one that was restarted
C7_Witness ==
    \E r \in Runs :
        /\ Finished(r)
        /\ \A v \in {"none", "invalid", "fresh", "expired"} :
              \E k \in Lines : log[k].op = "Eval" /\ log[k].res = v
        /\ \E k \in Lines : log[k].op = "Update" /\ log[k].res = "ok"

\* C8 as stated: a ReplicaSet whose pod template mounts the expired
\* credential implicates its Deployment, also when it has no live pods.
C8_TemplateImplicates ==
    \A k \in Lines :
        ( /\ log[k].op = "ListPods" /\ log[k].res = "ok"
          /\ Handled(log[k].r, log[k].sec) )
        => \A rs \in world.replicaSets :
              ( /\ rs.namespace = world.secrets[log[k].sec].namespace
                /\ world.secrets[log[k].sec].name \in rs.template
                /\ extractDeploymentName(rs.name) # <<>> )
              => \E m \in Lines :
                    /\ log[m].op = "Restart" /\ log[m].r = log[k].r
                    /\ log[m].sec = log[k].sec
                    /\ log[m].name = extractDeploymentName(rs.name)

\* the invocations of checkSecrets that have not returned
Live == {r \in Runs : run[r].pc # "idle"}

\* C9: at most one invocation of checkSecrets is live, so no Deployment has
\* two restarts in flight.
C9_NoOverlap ==
    /\ Cardinality(Live) <= 1
    /\ \A p, q \in Runs :
          ( /\ p # q
            /\ run[p].pc \in {"get", "annotate", "update"}
            /\ run[q].pc \in {"get", "annotate", "update"} )
          => Target(p) # Target(q)

\* a tick is waiting in the channel while the second cycle is writing a
\* Deployment: the run has lasted beyond the poll interval
C9_Witness ==
    /\ tickCh = 1
    /\ cycle >= 2
    /\ \E r \in Runs : run[r].pc = "update"

\* C10: a cycle restarts again every Deployment that an earlier cycle
\* restarted, if the credential is (still) expired and the listed pods
\* (still) resolve to it.
C10_RestartedAgain ==
    \A r \in Runs :
        Finished(r) =>
            \A key \in restarted : \A i \in 1..Len(world.secrets) :
                ( /\ ExpiredAt(i, run[r].now)
                  /\ world.secrets[i].namespace = key[1]
                  /\ key[2] \in ImplicatedBy(i)
                  /\ \E k \in Lines : /\ log[k].op = "ListPods" /\ log[k].sec = i
                                      /\ log[k].res = "ok" )
                => \E m \in Lines :
                      /\ log[m].op = "Get" /\ log[m].r = r /\ log[m].sec = i
                      /\ log[m].ns = key[1] /\ log[m].name = key[2]

\* a Deployment restarted in an earlier cycle has been restarted again
C10_Witness ==
    \E k \in Lines :
        /\ log[k].op = "Update" /\ log[k].res = "ok"
        /\ <<log[k].ns, log[k].name>> \in restarted
        /\ log[k].ver >= 2

\* ------------------------------------------- the claims on expiry values
\* the instant t is strictly later than the instant u
StrictlyLater(t, u) ==
    \/ t.d > u.d
    \/ t.d = u.d /\ t.s > u.s
    \/ t.d = u.d /\ t.s = u.s /\ t.ns > u.ns

\* what EvalValues says of the expiry value of the Secret at position i
CasesOf(i) ==
    {EvalValues[k] : k \in {j \in 1..Len(EvalValues) :
        /\ HasExpiry(world.secrets[i])
        /\ EvalValues[j].raw = world.secrets[i].annotations[ExpiryAnnotationKey]}}

\* the verdict that an instant of expiry gives at the instant now
VerdictAt(now, expiry) == IF StrictlyLater(now, expiry) THEN "expired" ELSE "fresh"

\* the lines of the log that evaluate a Secret
Evals == {k \in Lines : log[k].op = "Eval"}

\* C11: a value that is an absolute timestamp in one of the three layouts
\* is decided by that timestamp alone: the Secret is expired iff now is
\* strictly after the instant the value names, whatever the creation
\* instant of the Secret.
C11_AbsoluteDecides ==
    \A k \in Evals : \A c \in CasesOf(log[k].sec) :
        c.kind = "absolute" =>
            log[k].res = VerdictAt(run[log[k].r].now,
                                   TimeAdd(StartTime, MkDuration(FALSE, c.n, 0)))

\* C11's case: a timestamp that names the instant now, on a Secret created
\* after StartTime, has been evaluated as not expired
C11_Witness ==
    \E k \in Evals : \E c \in CasesOf(log[k].sec) :
        /\ c.kind = "absolute"
        /\ TimeAdd(StartTime, MkDuration(FALSE, c.n, 0)) = run[log[k].r].now
        /\ StrictlyLater(world.secrets[log[k].sec].creationTimestamp, StartTime)
        /\ log[k].res = "fresh"

\* C12 as stated: a value that is a non-negative integer n makes the Secret
\* expired iff now is strictly after its creation instant plus n seconds.
C12_SecondsSinceCreation ==
    \A k \in Evals : \A c \in CasesOf(log[k].sec) :
        c.kind = "seconds" =>
            log[k].res =
                IF c.huge THEN "fresh"
                ELSE VerdictAt(run[log[k].r].now,
                               TimeAdd(world.secrets[log[k].sec].creationTimestamp,
                                       MkDuration(FALSE, c.n, 0)))

\* C13 as stated: a value of none of the four formats is a format error,
\* and no call is made for its Secret.
C13_UnmatchedRejected ==
    \A k \in Evals : \A c \in CasesOf(log[k].sec) :
        c.kind = "other" =>
            /\ log[k].res = "invalid"
            /\ \A j \in Lines : log[j].op \in CallOps => log[j].sec # log[k].sec

\* ---------------------------------------- the claims on ReplicaSet names
\* what NameValues says of the ReplicaSet that controls the pod at position p
NamesOf(p) ==
    {NameValues[k] : k \in {j \in 1..Len(NameValues) :
        \E o \in 1..Len(world.pods[p].ownerReferences) :
            NameValues[j].rs = world.pods[p].ownerReferences[o].name}}

\* the Deployment names for which a restart was started
RestartNames == {log[k].name : k \in {j \in Lines : log[j].op = "Restart"}}

\* the pods have been listed for the Secret, and its restarts are over
Resolved ==
    /\ \E k \in Lines : log[k].op = "ListPods" /\ log[k].res = "ok"
    /\ \E r \in Runs : Handled(r, 1)

\* C14: the Deployment name derived from a ReplicaSet name is the name
\* without its last hyphen-separated segment ("myapp-7d8f9c9c79" gives
\* "myapp"); a name of one segment gives the empty name, and then no
\* restart is issued.
C14_DropsLastSegment ==
    /\ extractDeploymentName(NameValues[1].rs) = nMyapp
    /\ \A p \in 1..Len(world.pods) : \A c \in NamesOf(p) :
          /\ extractDeploymentName(c.rs) = c.dep
          /\ RestartNames \subseteq {c.dep} \ {<<>>}
          /\ Resolved => RestartNames = {c.dep} \ {<<>>}

\* a name of one segment has been resolved without a restart
C14_SingleSegment ==
    /\ Resolved
    /\ \E p \in 1..Len(world.pods) : \E c \in NamesOf(p) :
          c.rs = nMyapp /\ RestartNames = {}

\* C14's case: a name of three segments has been resolved, and the restart
\* of the Deployment named by its first two was started
C14_Witness ==
    /\ Resolved
    /\ \E p \in 1..Len(world.pods) : \E c \in NamesOf(p) :
          c.rs = Rs(nMyApp, <<"7">>) /\ RestartNames = {nMyApp}

\* ------------------------------------------------ the claims on the writes
\* the entries of a map[string]string, none for a nil map
EntriesOf(ann) == IF ann.nil THEN NoAnnotations ELSE ann.m

\* the stored object new is the stored object old with the restart
\* annotation set and nothing else of what a client writes changed
OnlyRestartAnnotationSet(old, new) ==
    /\ new.replicas = old.replicas
    /\ ~new.annotations.nil
    /\ DOMAIN new.annotations.m = DOMAIN EntriesOf(old.annotations) \cup {RestartedAtKey}
    /\ \A k \in DOMAIN EntriesOf(old.annotations) \ {RestartedAtKey} :
          new.annotations.m[k] = EntriesOf(old.annotations)[k]

\* C15: no step changes a Secret, a pod or a ReplicaSet or creates or
\* deletes a Deployment, and a step of the program that changes a stored
\* Deployment sets its restart annotation and leaves its other annotations
\* and fields as they were.
C15_OnlyRestartWrite ==
    [][ /\ world' = world
        /\ DOMAIN deployments' = DOMAIN deployments
        /\ \A key \in DOMAIN deployments :
              (deployments'[key] # deployments[key] /\ otherWrites' = otherWrites)
                  => OnlyRestartAnnotationSet(deployments[key], deployments'[key]) ]_vars

\* C15's case: a Deployment that carried another annotation and was written
\* by another client has been restarted, and carries both annotations and
\* the other client's change
C15_Witness ==
    \E k \in Lines :
        /\ log[k].op = "Update" /\ log[k].res = "ok"
        /\ LET dep == deployments[<<log[k].ns, log[k].name>>]
           IN  /\ dep.replicas = 2
               /\ ~dep.annotations.nil
               /\ DOMAIN dep.annotations.m = {"team", RestartedAtKey}
               /\ dep.annotations.m["team"] = "core"

\* the lines of the log that are writes of a Deployment
Updates == {k \in Lines : log[k].op = "Update"}

\* C16: a restart makes at most RetrySteps write attempts, also when every
\* one of them conflicts, and every cycle that has started returns.
C16_RestartBounded ==
    /\ [](\A k \in Updates : log[k].att <= RetrySteps)
    /\ [](\A k \in Updates :
            (log[k].att = RetrySteps /\ log[k].res = "conflict")
                => \A j \in Lines : j > k => log[j].op \notin {"Get", "Annotate", "Update"})
    /\ (mainPc = "call" ~> mainPc = "select")

\* C16's case: all RetrySteps writes of a restart have conflicted, no write
\* was accepted, and the cycle has returned
C16_Witness ==
    /\ mainPc = "select"
    /\ cycle = 1
    /\ \A a \in 1..RetrySteps :
          \E k \in Updates : log[k].att = a /\ log[k].res = "conflict"
    /\ \A k \in Updates : log[k].res = "conflict"

\* ------------------------------------------------- the claims on the loop
\* every Secret of the list has been evaluated in the current cycle
AllEvaluated ==
    \A i \in 1..Len(world.secrets) : \E k \in Evals : log[k].sec = i

\* C17: main never leaves its loop: after an error of checkSecrets has been
\* printed it selects again (or is in the next call), and a cycle after it
\* that lists the Secrets evaluates every one of them.
C17_LoopSurvivesError ==
    /\ mainPc \in {"select", "call"}
    /\ (\A r \in Runs : run[r].pc = "idle") => mainPc = "select"
    /\ \A r \in Runs : (reported > 0 /\ Finished(r)) => AllEvaluated

\* C17's case: the first cycle ended with the error of the list call, which
\* was printed; the second cycle has evaluated every Secret and restarted a
\* Deployment
C17_Witness ==
    /\ reported = 1
    /\ cycle = 2
    /\ \E r \in Runs : Finished(r)
    /\ AllEvaluated
    /\ \E k \in Updates : log[k].res = "ok"

\* ------------------------------------------- the claims on the live pods
\* The Deployment names that the live-pod strategy implicates for the Secret
\* at position i: those derived, and not empty, from the name of a
\* ReplicaSet that is the controller of a pod of the Secret's namespace with
\* a secret volume of the Secret's name.
LivePodDeployments(i) ==
    UNION { { extractDeploymentName(world.pods[p].ownerReferences[o].name) :
                o \in {q \in 1..Len(world.pods[p].ownerReferences) :
                         /\ world.pods[p].ownerReferences[q].kind = "ReplicaSet"
                         /\ world.pods[p].ownerReferences[q].controller = "true"} } :
            p \in {q \in 1..Len(world.pods) :
                     /\ world.pods[q].namespace = world.secrets[i].namespace
                     /\ \E v \in 1..Len(world.pods[q].volumes) :
                           /\ world.pods[q].volumes[v].secret
                           /\ world.pods[q].volumes[v].secretName = world.secrets[i].name} }
      \ {<<>>}

\* the Deployments, as <<namespace, name>>, whose restart was started for the
\* Secret at position i
RestartsFor(i) ==
    {<<log[k].ns, log[k].name>> : k \in {j \in Lines : log[j].op = "Restart" /\ log[j].sec = i}}

\* the pods were listed for the Secret at position i
PodsListed(i) ==
    \E k \in Lines : log[k].op = "ListPods" /\ log[k].sec = i /\ log[k].res = "ok"

\* C18: for an expired Secret whose pods were listed, the Deployments that
\* are restarted are those of the Secret's namespace that the live-pod
\* strategy implicates, no other and (once the Secret is handled) every one.
C18_LivePodIff ==
    \A i \in 1..Len(world.secrets) :
        /\ RestartsFor(i) \subseteq
              {<<world.secrets[i].namespace, d>> : d \in LivePodDeployments(i)}
        /\ \A r \in Runs :
              (PodsListed(i) /\ log[1].r = r /\ Handled(r, i)) =>
                  RestartsFor(i) =
                     {<<world.secrets[i].namespace, d>> : d \in LivePodDeployments(i)}

\* C18's case: among pods that read the expired Secret through the
\* environment, pods of a DaemonSet, of a ReplicaSet with a one-segment name
\* and of owners that are no controller, the Secret has been handled and web,
\* the Deployment of the one mounting pod of a controlling ReplicaSet, is
\* the only one restarted
C18_Witness ==
    /\ world.pods = ScOwners.pods
    /\ \E r \in Runs : log # <<>> /\ log[1].r = r /\ Handled(r, 2)
    /\ PodsListed(2)
    /\ RestartsFor(2) = {<<"B", nWeb>>}

\* ------------------------------------------------ the claims on the retry
\* the line is a Get or an Update that failed with an error that is no
\* conflict
FailedHard(e) ==
    \/ e.op = "Get" /\ e.res \in {"error", "notfound"}
    \/ e.op = "Update" /\ e.res = "error"

\* C19: after a Get that fails or an Update that fails without a conflict
\* the restart is over: the log goes on with no further Get, annotation or
\* Update of that restart; the failing call changes no stored Deployment,
\* and a Deployment that was not found still does not exist.
C19_OnlyConflictsRetried ==
    /\ [](\A k \in Lines :
            FailedHard(log[k]) =>
                /\ k < Len(log) => log[k + 1].op \notin {"Get", "Annotate", "Update"}
                /\ log[k].res = "notfound" =>
                      <<log[k].ns, log[k].name>> \notin DOMAIN deployments)
    /\ [][ (Len(log') = Len(log) + 1 /\ FailedHard(log'[Len(log')]))
              => deployments' = deployments ]_vars

\* C19's case: the Get of a derived name that is no Deployment failed in its
\* first attempt, and the program has gone on to restart the next Deployment
C19_Witness ==
    \E k \in Lines :
        /\ log[k].op = "Get" /\ log[k].res = "notfound" /\ log[k].att = 1
        /\ log[k].name = nOldApp
        /\ k < Len(log)
        /\ log[k + 1].op = "Restart"
        /\ DOMAIN deployments = {<<"B", nMyApp>>}

\* --------------------------------------------- the claims on other writers
RECURSIVE ChangesKept(_)
\* the changes of other clients that the stored Deployments of the set keys
\* show: each of their writes adds one replica to the one the Deployment had
ChangesKept(keys) ==
    IF keys = {} THEN 0
    ELSE LET key == CHOOSE x \in keys : TRUE
         IN  (deployments[key].replicas - 1) + ChangesKept(keys \ {key})

\* C20: the stored Deployments show every change that another client has
\* committed, a Deployment whose restart succeeded carries the restart
\* annotation, and a write of the program is accepted only when it is based
\* on the version that is stored.
C20_NoLostUpdate ==
    /\ [](ChangesKept(DOMAIN deployments) = otherWrites)
    /\ [](\A k \in Updates :
            log[k].res = "ok" =>
                /\ ~deployments[<<log[k].ns, log[k].name>>].annotations.nil
                /\ RestartedAtKey \in
                      DOMAIN deployments[<<log[k].ns, log[k].name>>].annotations.m)
    /\ [][ \A key \in DOMAIN deployments :
              (deployments'[key] # deployments[key] /\ otherWrites' = otherWrites)
                  => \E r \in Runs :
                        /\ run[r].pc = "update"
                        /\ Target(r) = key
                        /\ run[r].obj.resourceVersion = deployments[key].resourceVersion ]_vars

\* C20's case: another client wrote the Deployment while its restart was in
\* flight, the first write of the program conflicted, and the second was
\* accepted: the stored Deployment has the other client's change and the
\* restart annotation
C20_Witness ==
    \E k \in Updates :
        /\ log[k].res = "ok" /\ log[k].att = 2
        /\ otherWrites = 1
        /\ deployments[<<log[k].ns, log[k].name>>].replicas = 2
        /\ RestartedAtKey \in DOMAIN deployments[<<log[k].ns, log[k].name>>].annotations.m
        /\ \E j \in Updates : j < k /\ log[j].res = "conflict" /\ log[j].name = log[k].name

====
